---- MODULE Spec2Model ----
(***************************************************************************)
(* Model of server.js: an Express REST API over one sql.js table,          *)
(* "usernames", with a file copy of the database written by saveDatabase.  *)
(* Every route handler is synchronous JavaScript, so a request runs to     *)
(* its response without interleaving: one action per route.                *)
(***************************************************************************)
EXTENDS Integers, Sequences, FiniteSets, TLC

\* ------------------------------------------------------------------ bounds
\* AUTOINCREMENT ids handed out at most (caps the sqlite_sequence counter)
MaxSeq == 2
\* longest `usernames` array of a bulk import
MaxBulk == 2
\* CURRENT_TIMESTAMP takes the values 0..MaxClock
MaxClock == 1

\* ------------------------------------------------------- JSON body values
\* A JSON value of a request body.  Strings are sequences of characters, so
\* that the string methods of the handlers are computed, not assumed.
Undefined == [t |-> "undefined", s |-> <<>>]
Null == [t |-> "null", s |-> <<>>]
\* a non-zero number such as 5: truthy, and not a string
Num == [t |-> "number", s |-> <<>>]
Str(s) == [t |-> "string", s |-> s]

\* JavaScript truthiness of a body value (!v is its negation)
Truthy(v) == (v.t = "string" /\ v.s # <<>>) \/ v.t = "number"

\* ---------------------------------------------------- username clean-up
\* String.prototype.replace(/^@/, ''): drops one '@' at index 0, if any
ReplaceLeadingAt(s) == IF s # <<>> /\ Head(s) = "@" THEN Tail(s) ELSE s

IsWhiteSpace(c) == c = " "

RECURSIVE TrimStart(_)
TrimStart(s) ==
  IF s # <<>> /\ IsWhiteSpace(Head(s)) THEN TrimStart(Tail(s)) ELSE s

RECURSIVE TrimEnd(_)
TrimEnd(s) ==
  IF s # <<>> /\ IsWhiteSpace(s[Len(s)])
  THEN TrimEnd(SubSeq(s, 1, Len(s) - 1))
  ELSE s

\* String.prototype.trim()
Trim(s) == TrimEnd(TrimStart(s))

LowerChar(c) ==
  CASE c = "F" -> "f"
    [] c = "O" -> "o"
    [] OTHER -> c

RECURSIVE ToLowerCase(_)
ToLowerCase(s) ==
  IF s = <<>> THEN <<>> ELSE <<LowerChar(Head(s))>> \o ToLowerCase(Tail(s))

\* username.replace(/^@/, '').trim().toLowerCase()
CleanUsername(s) == ToLowerCase(Trim(ReplaceLeadingAt(s)))

\* ------------------------------------------------------------ the table
\* list_type TEXT NOT NULL CHECK(list_type IN ('following', 'followers')),
\* and the array the handlers test with .includes()
ListTypes == {"following", "followers"}

\* the connection's counters: sqlite3_changes and last_insert_rowid
NoConn == [changes |-> 0, lastInsertRowid |-> 0]

EmptyDb == [rows |-> {}, seq |-> 0]

\* the schema without its UNIQUE(username, list_type) constraint
UniqueConflict_NoConstraint(rows, id, u, lt) == FALSE

\* UNIQUE(username, list_type): would a row (u, lt) under id clash?
UniqueConflict(rows, id, u, lt) ==
  \E r \in rows : r.id # id /\ r.username = u /\ r.list_type = lt

\* saveDatabase(): db.export() then writeFileSync.  sql.js's export closes
\* and reopens the database, so the reopened connection's counters are 0.
SaveDatabase(w) == [w EXCEPT !.file = w.db, !.conn = NoConn]

\* ------------------------------------------------------- SQL statements
\* The world a handler acts on: w.db the in-memory database (rows and the
\* AUTOINCREMENT counter), w.file the database file, w.conn the counters.
\* A statement yields the world after it and whether db.run threw; a
\* statement that throws changes nothing (statement-level atomicity).

\* SELECT * FROM usernames WHERE id = ?   (a set of at most one row)
QueryById(rows, id) == {r \in rows : r.id = id}

\* SELECT id FROM usernames WHERE username = ? AND list_type = ?
QueryByPair(rows, u, lt) ==
  {r \in rows : r.username = u /\ r.list_type = lt}

\* the count without its WHERE list_type = ?
QueryCount_NoWhere(rows, lt) == Cardinality(rows)

\* SELECT COUNT(*) as count FROM usernames WHERE list_type = ?
QueryCount(rows, lt) == Cardinality({r \in rows : r.list_type = lt})

NewRow(id, u, lt, dn, nt, now) ==
  [id |-> id, username |-> u, list_type |-> lt, display_name |-> dn,
   notes |-> nt, created_at |-> now, updated_at |-> now]

\* INSERT INTO usernames (username, list_type, display_name, notes)
Insert(w, u, lt, dn, nt, now) ==
  IF lt \notin ListTypes \/ UniqueConflict(w.db.rows, 0, u, lt)
  THEN [w |-> w, threw |-> TRUE]
  ELSE LET id == w.db.seq + 1 IN
       [w |-> [w EXCEPT !.db = [rows |-> w.db.rows \cup
                                          {NewRow(id, u, lt, dn, nt, now)},
                                seq |-> id],
                        !.conn = [changes |-> 1, lastInsertRowid |-> id]],
        threw |-> FALSE]

\* INSERT OR IGNORE INTO usernames (username, list_type): a UNIQUE clash
\* skips the row and the statement completes with no row modified
InsertOrIgnore(w, u, lt, now) ==
  IF UniqueConflict(w.db.rows, 0, u, lt)
  THEN [w |-> [w EXCEPT !.conn.changes = 0], threw |-> FALSE]
  ELSE Insert(w, u, lt, Null, Null, now)

\* UPDATE usernames SET username = ?, list_type = ?, display_name = ?,
\*   notes = ?, updated_at = CURRENT_TIMESTAMP WHERE id = ?
Update(w, id, new) ==
  LET hit == QueryById(w.db.rows, id) IN
  IF hit # {} /\ (new.list_type \notin ListTypes
                  \/ UniqueConflict(w.db.rows, id, new.username, new.list_type))
  THEN [w |-> w, threw |-> TRUE]
  ELSE [w |-> [w EXCEPT !.db.rows = IF hit = {} THEN @
                                    ELSE (@ \ hit) \cup {new},
                        !.conn.changes = Cardinality(hit)],
        threw |-> FALSE]

\* DELETE FROM usernames WHERE id = ?
DeleteById(w, id) ==
  LET hit == QueryById(w.db.rows, id) IN
  [w |-> [w EXCEPT !.db.rows = @ \ hit, !.conn.changes = Cardinality(hit)],
   threw |-> FALSE]

\* DELETE FROM usernames WHERE list_type = ?
DeleteByListType(w, lt) ==
  LET hit == {r \in w.db.rows : r.list_type = lt} IN
  [w |-> [w EXCEPT !.db.rows = @ \ hit, !.conn.changes = Cardinality(hit)],
   threw |-> FALSE]

\* run(sql, params): db.run, then saveDatabase, then the counters are read
\* from the connection as saveDatabase left it.  A throw of db.run leaves
\* run before saveDatabase.
Run(st) ==
  IF st.threw
  THEN [w |-> st.w, threw |-> TRUE, lastInsertRowid |-> 0, changes |-> 0]
  ELSE LET saved == SaveDatabase(st.w) IN
       [w |-> saved, threw |-> FALSE,
        lastInsertRowid |-> saved.conn.lastInsertRowid,
        changes |-> saved.conn.changes]

\* ------------------------------------------------------- route handlers
\* A body's list_type is a string; NoListType stands for an absent or empty
\* one (both falsy).  A handler yields the world after it and the response.
NoListType == ""

NoResp ==
  [status |-> 0, success |-> FALSE, data |-> {}, changes |-> 0,
   imported |-> 0, total |-> 0, following |-> 0, followers |-> 0,
   statsTotal |-> 0]

\* res.status(n).json({ success: ... })
Json(status) ==
  [NoResp EXCEPT !.status = status, !.success = status \in {200, 201}]

Reply(w, status) == [w |-> w, resp |-> Json(status)]

\* v || null
OrNull(v) == IF Truthy(v) THEN v ELSE Null

\* app.post('/api/usernames')
PostUsername(w, body, now) ==
  IF ~Truthy(body.username) \/ body.list_type = NoListType THEN Reply(w, 400)
  ELSE IF body.list_type \notin ListTypes THEN Reply(w, 400)
  ELSE IF body.username.t # "string" THEN Reply(w, 500)
  ELSE
    LET cleanUsername == CleanUsername(body.username.s) IN
    IF cleanUsername = <<>> THEN Reply(w, 400)
    ELSE IF QueryByPair(w.db.rows, cleanUsername, body.list_type) # {}
    THEN Reply(w, 409)
    ELSE
      LET result == Run(Insert(w, cleanUsername, body.list_type,
                               OrNull(body.display_name), OrNull(body.notes),
                               now))
      IN IF result.threw THEN Reply(result.w, 500)
         ELSE [w |-> result.w,
               resp |-> [Json(201) EXCEPT !.data =
                           QueryById(result.w.db.rows, result.lastInsertRowid)]]

\* the update writing `notes || null`, as the create does
UpdatedRow_NotesOrNull(existing, body, now) ==
  [id |-> existing.id,
   username |-> IF Truthy(body.username)
                THEN CleanUsername(body.username.s)
                ELSE existing.username,
   list_type |-> IF body.list_type # NoListType
                 THEN body.list_type
                 ELSE existing.list_type,
   display_name |-> IF body.display_name # Undefined
                    THEN body.display_name
                    ELSE existing.display_name,
   notes |-> OrNull(body.notes),
   created_at |-> existing.created_at,
   updated_at |-> now]

\* The row the UPDATE of app.put writes: each column from the body when the
\* body gives it, else from the row read before
UpdatedRow(existing, body, now) ==
  [id |-> existing.id,
   username |-> IF Truthy(body.username)
                THEN CleanUsername(body.username.s)
                ELSE existing.username,
   list_type |-> IF body.list_type # NoListType
                 THEN body.list_type
                 ELSE existing.list_type,
   display_name |-> IF body.display_name # Undefined
                    THEN body.display_name
                    ELSE existing.display_name,
   notes |-> IF body.notes # Undefined THEN body.notes ELSE existing.notes,
   created_at |-> existing.created_at,
   updated_at |-> now]

\* app.put('/api/usernames/:id')
PutUsername(w, id, body, now) ==
  LET found == QueryById(w.db.rows, id) IN
  IF found = {} THEN Reply(w, 404)
  ELSE
    LET existing == CHOOSE r \in found : TRUE IN
    IF Truthy(body.username) /\ body.username.t # "string" THEN Reply(w, 500)
    ELSE IF body.list_type # NoListType /\ body.list_type \notin ListTypes
    THEN Reply(w, 400)
    ELSE
      LET result == Run(Update(w, id, UpdatedRow(existing, body, now))) IN
      IF result.threw THEN Reply(result.w, 500)
      ELSE [w |-> result.w,
            resp |-> [Json(200) EXCEPT !.data = QueryById(result.w.db.rows, id)]]

\* app.delete('/api/usernames/:id')
DeleteUsername(w, id) ==
  IF QueryById(w.db.rows, id) = {} THEN Reply(w, 404)
  ELSE LET result == Run(DeleteById(w, id)) IN
       IF result.threw THEN Reply(result.w, 500) ELSE Reply(result.w, 200)

\* app.delete('/api/usernames/list/:list_type'); the message carries
\* result.changes
DeleteList(w, lt) ==
  IF lt \notin ListTypes THEN Reply(w, 400)
  ELSE LET result == Run(DeleteByListType(w, lt)) IN
       IF result.threw THEN Reply(result.w, 500)
       ELSE [w |-> result.w,
             resp |-> [Json(200) EXCEPT !.changes = result.changes]]

\* the loop counting every item it ran an INSERT for
CountInserted_Always(inserted, changes) == inserted + 1

\* if (db.getRowsModified() > 0) inserted++
CountInserted(inserted, changes) ==
  IF changes > 0 THEN inserted + 1 ELSE inserted

\* The for loop of the bulk import over the items left: user.replace throws
\* a TypeError on an item that is no string and leaves the loop at once
RECURSIVE BulkLoop(_, _, _, _, _)
BulkLoop(w, items, lt, inserted, now) ==
  IF items = <<>> THEN [w |-> w, inserted |-> inserted, threw |-> FALSE]
  ELSE
    LET user == Head(items) IN
    IF user.t # "string" THEN [w |-> w, inserted |-> inserted, threw |-> TRUE]
    ELSE
      LET cleanUsername == CleanUsername(user.s) IN
      IF cleanUsername = <<>>
      THEN BulkLoop(w, Tail(items), lt, inserted, now)
      ELSE
        LET st == InsertOrIgnore(w, cleanUsername, lt, now) IN
        BulkLoop(st.w, Tail(items), lt,
                 IF st.threw THEN inserted
                 ELSE CountInserted(inserted, st.w.conn.changes),
                 now)

\* app.post('/api/usernames/bulk'); body.usernames is [isArray, items]
BulkImport(w, body, now) ==
  IF ~body.usernames.isArray \/ body.list_type = NoListType THEN Reply(w, 400)
  ELSE IF body.list_type \notin ListTypes THEN Reply(w, 400)
  ELSE
    LET loop == BulkLoop(w, body.usernames.items, body.list_type, 0, now) IN
    IF loop.threw THEN Reply(loop.w, 500)
    ELSE [w |-> SaveDatabase(loop.w),
          resp |-> [Json(201) EXCEPT !.imported = loop.inserted,
                                     !.total = Len(body.usernames.items)]]

\* app.get('/api/stats')
GetStats(w) ==
  LET followingCount == QueryCount(w.db.rows, "following")
      followersCount == QueryCount(w.db.rows, "followers")
  IN [w |-> w,
      resp |-> [Json(200) EXCEPT !.following = followingCount,
                                 !.followers = followersCount,
                                 !.statsTotal = followingCount + followersCount]]

\* ---------------------------------------------------------------- state
VARIABLES
  db,     \* the in-memory sql.js database: [rows, seq]
  file,   \* usernames.db as last written by saveDatabase
  conn,   \* the open connection's changes / last_insert_rowid counters
  clock,  \* CURRENT_TIMESTAMP
  req,    \* the request answered last
  resp,   \* the response sent to it
  pre     \* the in-memory database when that request arrived

vars == <<db, file, conn, clock, req, resp, pre>>

World == [db |-> db, file |-> file, conn |-> conn]

NotArray == [isArray |-> FALSE, items |-> <<>>]
Array(items) == [isArray |-> TRUE, items |-> items]

NoReq ==
  [op |-> "none", id |-> 0, username |-> Undefined, list_type |-> NoListType,
   display_name |-> Undefined, notes |-> Undefined, usernames |-> NotArray]

\* initDatabase() on a machine with no usernames.db yet: a new database, the
\* CREATE TABLE, and saveDatabase()
Init ==
  /\ db = EmptyDb
  /\ file = EmptyDb
  /\ conn = NoConn
  /\ clock = 0
  /\ req = NoReq
  /\ resp = NoResp
  /\ pre = EmptyDb

\* one request handled from arrival to response
Respond(request, out) ==
  /\ db' = out.w.db
  /\ file' = out.w.file
  /\ conn' = out.w.conn
  /\ resp' = out.resp
  /\ req' = request
  /\ pre' = db
  /\ UNCHANGED clock

\* ------------------------------------------------------- request inputs
AtFooSp == <<"@", "F", "o", "o", " ">>
SpAtFoo == <<" ", "@", "f", "o", "o">>
AtOnly == <<"@">>
AtAtFoo == <<"@", "@", "f", "o", "o">>

UsernameInputs ==
  {Undefined, Num, Str(AtFooSp), Str(SpAtFoo), Str(AtAtFoo), Str(AtOnly)}
ListTypeInputs == {NoListType, "following", "followers", "blocked"}
BulkItems == {Num, Str(AtFooSp), Str(SpAtFoo), Str(AtOnly)}
BulkArrays == UNION {[1..n -> BulkItems] : n \in 0..MaxBulk}
Ids == 1..MaxSeq

TextD == Str(<<"d">>)
TextN == Str(<<"n">>)

\* --------------------------------------------------------------- actions
Post(US, LS, DS, NS) ==
  \E u \in US, lt \in LS, dn \in DS, nt \in NS :
    /\ db.seq < MaxSeq
    /\ LET body == [NoReq EXCEPT !.op = "create", !.username = u,
                                 !.list_type = lt, !.display_name = dn,
                                 !.notes = nt]
       IN Respond(body, PostUsername(World, body, clock))

Put(IS, US, LS, DS, NS) ==
  \E id \in IS, u \in US, lt \in LS, dn \in DS, nt \in NS :
    LET body == [NoReq EXCEPT !.op = "update", !.id = id, !.username = u,
                              !.list_type = lt, !.display_name = dn,
                              !.notes = nt]
    IN Respond(body, PutUsername(World, id, body, clock))

Delete ==
  \E id \in Ids :
    Respond([NoReq EXCEPT !.op = "delete", !.id = id],
            DeleteUsername(World, id))

DeleteListReq ==
  \E lt \in ListTypeInputs \ {NoListType} :
    Respond([NoReq EXCEPT !.op = "deleteList", !.list_type = lt],
            DeleteList(World, lt))

Bulk ==
  \E a \in {NotArray} \cup {Array(x) : x \in BulkArrays},
     lt \in ListTypeInputs :
    /\ db.seq + Len(a.items) <= MaxSeq
    /\ LET body == [NoReq EXCEPT !.op = "bulk", !.usernames = a,
                                 !.list_type = lt]
       IN Respond(body, BulkImport(World, body, clock))

Stats == Respond([NoReq EXCEPT !.op = "stats"], GetStats(World))

\* a second passes
Tick ==
  /\ clock < MaxClock
  /\ clock' = clock + 1
  /\ UNCHANGED <<db, file, conn, req, resp, pre>>

\* The service under requests of every kind
CreateReq == Post(UsernameInputs, ListTypeInputs, {Undefined}, {Undefined})
UpdateReq == Put(Ids, UsernameInputs, ListTypeInputs, {Undefined}, {Undefined})

Next ==
  \/ CreateReq
  \/ UpdateReq
  \/ Delete
  \/ DeleteListReq
  \/ Bulk
  \/ Stats

Spec == Init /\ [][Next]_vars

\* The service started on an existing usernames.db (initDatabase reads the
\* file into the database), under updates of entry 1 that vary every column,
\* with time passing between requests
Foo == <<"f", "o", "o">>
AtFoo == <<"@", "f", "o", "o">>
TextX == Str(<<"x">>)

LoadedDb ==
  [rows |-> {NewRow(1, Foo, "following", TextD, TextN, 0),
             NewRow(2, AtFoo, "following", Null, Null, 0)},
   seq |-> 2]

InitFields ==
  /\ db = LoadedDb
  /\ file = LoadedDb
  /\ conn = NoConn
  /\ clock = 0
  /\ req = NoReq
  /\ resp = NoResp
  /\ pre = LoadedDb

UpdateFieldsReq ==
  Put({1}, {Undefined, Str(SpAtFoo)}, {NoListType, "followers"},
      {Undefined, Null, TextX}, {Undefined, Null, TextX})

NextFields ==
  \/ UpdateFieldsReq
  \/ Tick

SpecFields == InitFields /\ [][NextFields]_vars

\* --------------------------------------------------------------- claims
\* the entries of rows holding the pair (u, lt)
Holders(rows, u, lt) == {r \in rows : r.username = u /\ r.list_type = lt}

InList(rows, lt) == {r \in rows : r.list_type = lt}

MutatingOps == {"create", "update", "delete", "deleteList", "bulk"}

\* C1: in every reachable state no two stored entries share the same
\* (username, list_type) pair.
C1_UniquePairs ==
  \A r1, r2 \in db.rows :
    (r1.username = r2.username /\ r1.list_type = r2.list_type) => r1 = r2

\* an update that asked for a pair another entry holds has been answered
C1_Witness ==
  /\ req.op = "update"
  /\ req.username.t = "string"
  /\ resp.status = 500
  /\ Cardinality(db.rows) >= 2

\* C2: a create whose cleaned username and list_type are those of a stored
\* entry is answered 409 and adds no row; a create of a pair not yet stored
\* is answered 201 and exactly one entry holds the pair afterwards (so the
\* first of two equal creates gets 201 and the second 409).
C2_CreateConflict ==
  (req.op = "create" /\ req.username.t = "string"
     /\ req.list_type \in {"following", "followers"}) =>
    LET clean == CleanUsername(req.username.s)
        held == Holders(pre.rows, clean, req.list_type)
    IN /\ held # {} => (resp.status = 409 /\ db = pre)
       /\ (held = {} /\ clean # <<>>) =>
            /\ resp.status = 201
            /\ Cardinality(Holders(db.rows, clean, req.list_type)) = 1
            /\ Cardinality(db.rows) = Cardinality(pre.rows) + 1

\* a create of a stored pair has been answered
C2_Witness ==
  /\ req.op = "create"
  /\ resp.status = 409
  /\ Holders(db.rows, CleanUsername(req.username.s), req.list_type) # {}

\* the pair an update asks entry req.id to take
AskedUsername(old) ==
  IF Truthy(req.username) THEN CleanUsername(req.username.s)
  ELSE old.username
AskedListType(old) ==
  IF req.list_type # NoListType THEN req.list_type ELSE old.list_type

\* C3: an update that would give the entry a pair already held by a
\* different stored entry is answered 409, and the table is left unchanged.
C3_UpdateConflict409 ==
  (req.op = "update" /\ req.username.t # "number") =>
    \A old \in pre.rows :
      (old.id = req.id
         /\ \E other \in Holders(pre.rows, AskedUsername(old),
                                 AskedListType(old)) : other.id # old.id)
        => (resp.status = 409 /\ db = pre)

IsNormalized(s) ==
  /\ s # <<>>
  /\ Head(s) # "@"
  /\ ~IsWhiteSpace(Head(s))
  /\ ~IsWhiteSpace(s[Len(s)])
  /\ \A i \in 1..Len(s) : s[i] \notin {"F", "O"}

\* C4: the username of every stored entry is normalized: all lowercase, no
\* leading '@', no leading or trailing whitespace, non-empty.
C4_StoredNormalized == \A r \in db.rows : IsNormalized(r.username)

\* C5: after a successful delete of a list_type the table holds no entry of
\* that list_type, every entry of the other list_type is still there
\* unchanged, and the count in the response is the number of entries removed.
C5_DeleteList ==
  (req.op = "deleteList" /\ resp.success) =>
    /\ InList(db.rows, req.list_type) = {}
    /\ db.rows = pre.rows \ InList(pre.rows, req.list_type)
    /\ resp.changes = Cardinality(InList(pre.rows, req.list_type))

\* C6: a successful update overwrites only the fields its body supplies:
\* an absent username, list_type, display_name or notes keeps its value,
\* id and created_at are unchanged, and every other entry is unchanged.
C6_UpdateMerges ==
  (req.op = "update" /\ resp.status = 200) =>
    \E old \in pre.rows, new \in db.rows :
      /\ old.id = req.id
      /\ new.id = req.id
      /\ req.username = Undefined => new.username = old.username
      /\ req.list_type = NoListType => new.list_type = old.list_type
      /\ req.display_name = Undefined => new.display_name = old.display_name
      /\ req.notes = Undefined => new.notes = old.notes
      /\ new.created_at = old.created_at
      /\ db.rows \ {new} = pre.rows \ {old}

\* an update that left notes out, and gave a display name, of an entry with
\* notes, made after the second the entry was created in, beside another entry
C6_Witness ==
  /\ req.op = "update"
  /\ resp.status = 200
  /\ req.notes = Undefined
  /\ req.display_name # Undefined
  /\ Cardinality(db.rows) = 2
  /\ \E new \in db.rows :
       /\ new.id = req.id
       /\ new.notes # Null
       /\ new.updated_at > new.created_at

\* C7: whenever the response to a mutating request is sent, on success or
\* failure, the database file holds exactly the in-memory database.
C7_FlushedBeforeResponse == req.op \in MutatingOps => file = db

\* the items of the bulk import answered last are all strings
AllStrings(items) == \A i \in 1..Len(items) : items[i].t = "string"

\* C8: for a bulk import of an array of strings with a valid list_type,
\* `imported` is the number of rows added, which is the number of distinct
\* cleaned non-empty usernames of the input not yet stored in that list;
\* the request succeeds, every earlier row is unchanged, and `total` is the
\* length of the input.
C8_BulkCounts ==
  (req.op = "bulk" /\ req.usernames.isArray /\ AllStrings(req.usernames.items)
     /\ req.list_type \in {"following", "followers"}) =>
    LET items == req.usernames.items
        names == {CleanUsername(items[i].s) : i \in 1..Len(items)} \ {<<>>}
        fresh == {u \in names : Holders(pre.rows, u, req.list_type) = {}}
    IN /\ resp.status = 201
       /\ resp.imported = Cardinality(db.rows \ pre.rows)
       /\ resp.imported = Cardinality(fresh)
       /\ {r.username : r \in db.rows \ pre.rows} = fresh
       /\ \A r \in db.rows \ pre.rows : r.list_type = req.list_type
       /\ pre.rows \subseteq db.rows
       /\ resp.total = Len(items)

\* a bulk import that added some of its items and skipped others
C8_Witness ==
  /\ req.op = "bulk"
  /\ resp.status = 201
  /\ resp.imported > 0
  /\ resp.imported < resp.total

\* C9: the stats report `following` and `followers` as the numbers of stored
\* entries of each list_type, and `total` as their sum, which is the number
\* of stored entries.
C9_Stats ==
  (req.op = "stats") =>
    /\ resp.status = 200
    /\ resp.following = Cardinality(InList(db.rows, "following"))
    /\ resp.followers = Cardinality(InList(db.rows, "followers"))
    /\ resp.statsTotal = resp.following + resp.followers
    /\ resp.statsTotal = Cardinality(db.rows)

\* stats asked with entries in both lists
C9_Witness ==
  /\ req.op = "stats"
  /\ resp.following > 0
  /\ resp.followers > 0

\* C10: a request answered with success:false leaves the set of stored
\* entries exactly as it was before the request.
C10_FailureChangesNothing ==
  (req.op \in MutatingOps /\ ~resp.success) => db.rows = pre.rows

====
